---- MODULE Spec2Model ----
(***************************************************************************)
(* Dremio metadata extraction: DremioTableColumnExtractor,                 *)
(* DremioMetadataExtractor and DremioOdbcSqlQueryBuilder.                  *)
(*                                                                         *)
(* A job drives one component: `harness` names it.  The database side      *)
(* (the rows the query yields, how the ODBC driver delivers a BOOLEAN and  *)
(* labels the columns) is fixed before the job starts and is chosen in     *)
(* Init; the configuration is the input of init().                         *)
(*                                                                         *)
(* Python values: a str that the code only compares is a TLA+ string; a    *)
(* str the code splits (tags) is a sequence of one-character strings;      *)
(* None is PyNone; a value whose Python type matters (is_view) carries     *)
(* its type.  A dict is a function from its keys.                          *)
(***************************************************************************)
EXTENDS Naturals, Sequences, FiniteSets, TLC

VARIABLES
    harness,            \* the component the job drives
    db,                 \* rows the table/column query yields, in driver order
    odbc_bool,          \* Python type the driver delivers a SQL BOOLEAN as
    odbc_labels,        \* column label cursor.description fails to list ("" = none)
    tc_conf,            \* the configuration init() was given
    tc_sql_stmt,        \* self.sql_stmt
    tc_where_stmt,      \* init()'s local where_stmt
    tc_cluster,         \* self._cluster
    tc_tags_separator,  \* self._tags_separator
    tc_cursor,          \* self._pyodbc_cursor
    tc_extract_iter,    \* self._extract_iter (the generator's status)
    tc_fetched,         \* rows the generator has pulled from the cursor
    tc_held,            \* groupby holds a fetched row of the next group
    tc_executed,        \* number of cursor.execute(sql_stmt) calls
    tc_out,             \* TableMetadata records returned so far
    tc_ret,             \* outcome of the last init()/extract() call
    tc_raised,          \* some extract() call has raised
    tc_nones,           \* extract() calls that returned None (saturating)
    me_conf,            \* the configuration init() was given
    me_sql_stmt,        \* DremioMetadataExtractor.__sql_stmt
    me_model_class,     \* DremioMetadataExtractor.__model_class
    me_cursor,          \* DremioMetadataExtractor.__dremio_odbc_cursor
    me_extract_iter,    \* DremioMetadataExtractor._extract_iter
    me_fetched,         \* rows the generator has pulled from the cursor
    me_executed,        \* number of cursor.execute(sql_stmt) calls
    me_out,             \* records returned so far
    me_ret,             \* outcome of the last init()/extract() call
    me_raised,          \* some extract() call has raised
    me_nones,           \* extract() calls that returned None (saturating)
    qb_args,            \* arguments of the last get_sql_statement call
    qb_where,           \* query_kwargs['where_stmt'] of the last call
    qb_ret              \* outcome of the last get_sql_statement call

tc_vars == <<tc_conf, tc_sql_stmt, tc_where_stmt, tc_cluster, tc_tags_separator,
             tc_cursor, tc_extract_iter, tc_fetched, tc_held, tc_executed, tc_out, tc_ret,
             tc_raised, tc_nones>>

me_vars == <<me_conf, me_sql_stmt, me_model_class, me_cursor, me_extract_iter, me_fetched,
             me_executed, me_out, me_ret, me_raised, me_nones>>

qb_vars == <<qb_args, qb_where, qb_ret>>

env_vars == <<harness, db, odbc_bool, odbc_labels>>

\* ---------------------------------------------------------------- bounds

MaxRows == 3

\* Saturation of the execution counters.
MaxExec == 3

\* Saturation of the counters of None returns.
MaxNones == 2

\* ---------------------------------------------------------- Python values

PyNone == "None"

PyBool(b) == [type |-> "bool", value |-> IF b THEN "True" ELSE "False"]

PyStr(s) == [type |-> "str", value |-> s]

\* Python's ==: values of different types are unequal.
PyEq(a, b) == a = b

Min(a, b) == IF a < b THEN a ELSE b

Whitespace == {" ", "\t"}

RECURSIVE SplitSepFrom(_, _, _, _)
\* s.split(sep), sep one character: the tokens between the separators.
SplitSepFrom(s, sep, i, cur) ==
    IF i > Len(s) THEN <<cur>>
    ELSE IF s[i] = sep THEN <<cur>> \o SplitSepFrom(s, sep, i + 1, "")
    ELSE SplitSepFrom(s, sep, i + 1, cur \o s[i])

RECURSIVE SplitWsFrom(_, _, _)
\* s.split(None): the maximal runs of non-whitespace characters.
SplitWsFrom(s, i, cur) ==
    LET flush == IF cur = "" THEN <<>> ELSE <<cur>>
    IN  IF i > Len(s) THEN flush
        ELSE IF s[i] \in Whitespace THEN flush \o SplitWsFrom(s, i + 1, "")
        ELSE SplitWsFrom(s, i + 1, cur \o s[i])

\* Mutant: None splits nowhere.
PySplit_NoneKeepsWhole(s, sep) == SplitSepFrom(s, sep, 1, "")

\* str.split(sep) for sep None or one character (sep "" raises, see SplitRaises).
PySplit(s, sep) ==
    IF sep = PyNone THEN SplitWsFrom(s, 1, "") ELSE SplitSepFrom(s, sep, 1, "")

\* str.split("") raises ValueError: empty separator.
SplitRaises(sep) == sep = ""

\* ------------------------------------------------- DremioTableColumnExtractor

\* Config keys.
DREMIO_CLUSTER_KEY == "cluster_key"
DREMIO_EXCLUDE_SYS_TABLES_KEY == "exclude_system_tables"
DREMIO_EXCLUDE_PDS_TABLES_KEY == "exclude_pds_tables"
DREMIO_COLLABORATON_METADATA_TABLE_KEY == "dremio_collaboration_metadata_table_key"
DREMIO_TAGS_SEPARATOR == "tags_seperator"

TC_DEFAULT_CONFIG ==
    (DREMIO_CLUSTER_KEY :> "Production")
    @@ (DREMIO_EXCLUDE_SYS_TABLES_KEY :> TRUE)
    @@ (DREMIO_EXCLUDE_PDS_TABLES_KEY :> FALSE)
    @@ (DREMIO_COLLABORATON_METADATA_TABLE_KEY :> "DREMIO_COLLABORATION_METADATA")
    @@ (DREMIO_TAGS_SEPARATOR :> PyNone)

\* conf.with_fallback(defaults): the configured keys win.
WithFallback(conf, defaults) == conf @@ defaults

\* The column labels of SQL_STATEMENT's select list.
TC_COLUMNS == {"col_name", "col_description", "col_type", "col_sort_order", "database",
               "cluster", "schema", "name", "description", "is_view", "tags"}

SQL_HEAD ==
    "\n    SELECT\n      nested_1.COLUMN_NAME AS col_name,\n      CAST(NULL AS VARCHAR) AS col_description,\n      nested_1.DATA_TYPE AS col_type,\n      nested_1.ORDINAL_POSITION AS col_sort_order,\n      nested_1.TABLE_CATALOG AS database,\n      '"

SQL_MID ==
    "' AS cluster,\n      nested_1.TABLE_SCHEMA AS schema,\n      nested_1.TABLE_NAME AS name,\n      CASE WHEN nested_2.WIKI IS NULL THEN '' ELSE nested_2.WIKI END AS description,\n      CASE WHEN nested_0.TABLE_TYPE='VIEW' THEN TRUE ELSE FALSE END AS is_view,\n      CASE WHEN nested_2.TAGS IS NULL THEN '' ELSE nested_2.TAGS END AS tags\n    FROM (\n      SELECT TABLE_CATALOG, TABLE_SCHEMA, TABLE_NAME, TABLE_TYPE\n      FROM INFORMATION_SCHEMA.\"TABLES\"\n    ) nested_0\n    RIGHT JOIN (\n      SELECT TABLE_CATALOG, TABLE_SCHEMA, TABLE_NAME, COLUMN_NAME, DATA_TYPE, ORDINAL_POSITION\n      FROM INFORMATION_SCHEMA.\"COLUMNS\"\n    ) nested_1 ON nested_0.TABLE_NAME = nested_1.TABLE_NAME\n      AND nested_0.TABLE_SCHEMA = nested_1.TABLE_SCHEMA\n      AND nested_0.TABLE_CATALOG = nested_1.TABLE_CATALOG\n    LEFT JOIN (\n      SELECT TABLE_CATALOG, TABLE_SCHEMA, TABLE_NAME, WIKI, TAGS\n      FROM "

SQL_TAIL ==
    "\n    ) nested_2 ON nested_0.TABLE_NAME = nested_2.TABLE_NAME\n      AND nested_0.TABLE_SCHEMA = nested_2.TABLE_SCHEMA\n      AND nested_0.TABLE_CATALOG = nested_2.TABLE_CATALOG\n    "

\* SQL_STATEMENT.format(cluster=, dremio_collaboration_metadata_table=, where_stmt=)
FormatSqlStatement(cluster, table, where_stmt) ==
    SQL_HEAD \o cluster \o SQL_MID \o table \o SQL_TAIL \o where_stmt \o "\n    "

\* Mutant: the branch on both flags is lost.
WhereStmt_PdsFirst(exclude_sys_tables, exclude_pds_tables) ==
    IF exclude_pds_tables THEN "WHERE nested_0.TABLE_TYPE != 'TABLE';"
    ELSE IF exclude_sys_tables THEN "WHERE nested_0.TABLE_TYPE != 'SYSTEM_TABLE';"
    ELSE ";"

\* init()'s four-way branch on the two flags.
WhereStmt(exclude_sys_tables, exclude_pds_tables) ==
    IF exclude_sys_tables /\ exclude_pds_tables
    THEN "WHERE nested_0.TABLE_TYPE != 'SYSTEM_TABLE' AND " \o "nested_0.TABLE_TYPE != 'TABLE';"
    ELSE IF exclude_sys_tables THEN "WHERE nested_0.TABLE_TYPE != 'SYSTEM_TABLE';"
    ELSE IF exclude_pds_tables THEN "WHERE nested_0.TABLE_TYPE != 'TABLE';"
    ELSE ";"

\* Rows the query can yield (source side): tables s.t1, s.t2 and s2.t1, with
\* differing catalog, wiki, TABLE_TYPE, tags and columns.
SrcRow(schema, name, database, description, table_type, tags, col_name, col_type, ord) ==
    [schema |-> schema, name |-> name, database |-> database, description |-> description,
     table_type |-> table_type, tags |-> tags, col_name |-> col_name, col_type |-> col_type,
     col_sort_order |-> ord]

SrcRows ==
    { SrcRow("s", "t1", "d1", "wiki1", "VIEW", <<>>, "a", "int", 1),
      SrcRow("s", "t1", "d2", "wiki2", "TABLE", <<"x", ",", "y">>, "b", "varchar", 2),
      SrcRow("s", "t2", "d1", "", "VIEW", <<"x", " ", "y">>, "c", "int", 1),
      SrcRow("s2", "t1", "d1", "wiki1", "SYSTEM_TABLE", <<" ">>, "a", "int", 1) }

RECURSIVE SeqsUpTo(_, _)
SeqsUpTo(S, n) ==
    IF n = 0 THEN {<<>>}
    ELSE LET shorter == SeqsUpTo(S, n - 1)
         IN  shorter \cup {Append(q, x) : q \in shorter, x \in S}

\* How pyodbc hands over the BOOLEAN that the CASE expression of line 40 yields.
DriverBool(b) ==
    IF odbc_bool = "bool" THEN PyBool(b) ELSE PyStr(IF b THEN "true" ELSE "false")

\* dict(zip([c[0] for c in cursor.description], row)) for one row of the result.
DeliverRow(src, cluster) ==
    [k \in TC_COLUMNS \ {odbc_labels} |->
        CASE k = "col_name" -> src.col_name
          [] k = "col_description" -> PyNone
          [] k = "col_type" -> src.col_type
          [] k = "col_sort_order" -> src.col_sort_order
          [] k = "database" -> src.database
          [] k = "cluster" -> cluster
          [] k = "schema" -> src.schema
          [] k = "name" -> src.name
          [] k = "description" -> src.description
          [] k = "is_view" -> DriverBool(src.table_type = "VIEW")
          [] k = "tags" -> src.tags]

\* The rows _get_raw_extract_iter yields, in order.
RawRows == [i \in 1..Len(db) |-> DeliverRow(db[i], tc_cluster)]

\* Mutant: the key is the table name alone.
GetTableKey_NameOnly(row) == IF DOMAIN row # {} THEN <<row["name"]>> ELSE PyNone

\* _get_table_key
GetTableKey(row) == IF DOMAIN row # {} THEN <<row["schema"], row["name"]>> ELSE PyNone

\* _get_table_key raises KeyError on a row without schema or name.
KeyRaises(row) == DOMAIN row # {} /\ ~({"schema", "name"} \subseteq DOMAIN row)

ColumnMetadata(row) ==
    [name |-> row["col_name"], description |-> row["col_description"],
     col_type |-> row["col_type"], sort_order |-> row["col_sort_order"]]

ColRaises(row) ==
    ~({"col_name", "col_description", "col_type", "col_sort_order"} \subseteq DOMAIN row)

RECURSIVE RunGroup(_, _, _, _)
\* `for row in group`: rows[i] is the group's current row; the grouper fetches the
\* next row after each one and ends the group at a new key or at the end.
RunGroup(rows, i, tgtkey, cols) ==
    IF ColRaises(rows[i])
    THEN [status |-> "raise", last |-> i, columns |-> cols, fetched |-> i, held |-> FALSE]
    ELSE LET cols2 == Append(cols, ColumnMetadata(rows[i]))
         IN  IF i = Len(rows)
             THEN [status |-> "group", last |-> i, columns |-> cols2, fetched |-> i,
                   held |-> FALSE]
             ELSE IF KeyRaises(rows[i + 1])
             THEN [status |-> "raise", last |-> i, columns |-> cols2, fetched |-> i + 1,
                   held |-> FALSE]
             ELSE IF GetTableKey(rows[i + 1]) = tgtkey
             THEN RunGroup(rows, i + 1, tgtkey, cols2)
             ELSE [status |-> "group", last |-> i, columns |-> cols2, fetched |-> i + 1,
                   held |-> TRUE]

\* Mutant: the scalar fields come from the group's first row.
LastRow_First(rows, first, last) == rows[first]

\* last_row after the loop over the group
LastRow(rows, first, last) == rows[last]

\* last_row['is_view'] == 'true'
IsView(v) == PyEq(v, PyStr("true"))

\* Truth value of a str.
Truthy(s) == s # <<>>

\* Building the TableMetadata raises: a missing key, or split on an empty separator.
YieldRaises(last_row, sep) ==
    \/ ~({"database", "cluster", "schema", "name", "description", "is_view", "tags"}
            \subseteq DOMAIN last_row)
    \/ Truthy(last_row["tags"]) /\ SplitRaises(sep)

TableMetadata(last_row, columns, sep) ==
    [database |-> last_row["database"],
     cluster |-> last_row["cluster"],
     schema |-> last_row["schema"],
     name |-> last_row["name"],
     description |-> last_row["description"],
     columns |-> columns,
     is_view |-> IsView(last_row["is_view"]),
     tags |-> IF Truthy(last_row["tags"]) THEN PySplit(last_row["tags"], sep) ELSE PyNone]

\* Mutant: an exhausted generator counts as falsy.
IterIsFalsy_Exhausted(it) == it \in {PyNone, "finished"}

\* `not self._extract_iter`: None is falsy, a generator object never is.
IterIsFalsy(it) == it = PyNone

\* Mutant: every extract() executes the statement.
ExecutedAfterNext_Always(starting, executed) == Min(executed + 1, MaxExec)

\* cursor.execute runs when the generator is first advanced, and only then.
ExecutedAfterNext(starting, executed) ==
    IF starting THEN Min(executed + 1, MaxExec) ELSE executed

\* Mutant: the generator survives the exception.
GenAfterRaise_Resumable == "suspended"

\* A generator whose frame an exception left is finished.
GenAfterRaise == "finished"

Ret(kind, exc, rec) == [kind |-> kind, exc |-> exc, rec |-> rec]

\* Configurations passed to init(): no key at all; both flags, each true or
\* false, with everything else defaulted; or the flags defaulted and the tags
\* separator "," (with a cluster name) or empty.
FlagConfs ==
    {<<>>} \cup [{DREMIO_EXCLUDE_SYS_TABLES_KEY, DREMIO_EXCLUDE_PDS_TABLES_KEY} -> BOOLEAN]

SeparatorConfs ==
    { (DREMIO_TAGS_SEPARATOR :> ",") @@ (DREMIO_CLUSTER_KEY :> "Staging"),
      (DREMIO_TAGS_SEPARATOR :> "") }

TCConfs == FlagConfs \cup SeparatorConfs

TC == "DremioTableColumnExtractor"

TCInitState ==
    /\ tc_conf = PyNone
    /\ tc_nones = 0
    /\ tc_sql_stmt = PyNone
    /\ tc_where_stmt = PyNone
    /\ tc_cluster = PyNone
    /\ tc_tags_separator = PyNone
    /\ tc_cursor = "noattr"
    /\ tc_extract_iter = "noattr"
    /\ tc_fetched = 0
    /\ tc_held = FALSE
    /\ tc_executed = 0
    /\ tc_out = <<>>
    /\ tc_ret = Ret("nocall", "", PyNone)
    /\ tc_raised = FALSE

\* init(conf); connect_ok: whether pyodbc.connect succeeds.
TCInit(given, connect_ok) ==
    /\ harness = TC
    /\ tc_ret.kind = "nocall"
    /\ tc_conf' = given
    /\ LET conf == WithFallback(given, TC_DEFAULT_CONFIG)
           where_stmt == WhereStmt(conf[DREMIO_EXCLUDE_SYS_TABLES_KEY],
                                   conf[DREMIO_EXCLUDE_PDS_TABLES_KEY])
       IN  /\ tc_where_stmt' = where_stmt
           /\ tc_cluster' = conf[DREMIO_CLUSTER_KEY]
           /\ tc_tags_separator' = conf[DREMIO_TAGS_SEPARATOR]
           /\ tc_sql_stmt' = FormatSqlStatement(conf[DREMIO_CLUSTER_KEY],
                                 conf[DREMIO_COLLABORATON_METADATA_TABLE_KEY], where_stmt)
    /\ IF connect_ok
       THEN /\ tc_cursor' = "open"
            /\ tc_extract_iter' = PyNone
            /\ tc_executed' = 0
            /\ tc_ret' = Ret("ok", "", PyNone)
       ELSE /\ tc_ret' = Ret("raise", "pyodbc.Error", PyNone)
            /\ UNCHANGED <<tc_cursor, tc_extract_iter, tc_executed>>
    /\ UNCHANGED <<tc_fetched, tc_held, tc_out, tc_raised, tc_nones, env_vars>>

\* extract(): creates the generator when _extract_iter is falsy, then next() on it.
\* The generator runs to its next yield, to its end or to an exception.
TCExtract ==
    /\ harness = TC
    /\ tc_extract_iter # "noattr"
    /\ LET starting == IterIsFalsy(tc_extract_iter)
           status == IF starting THEN "created" ELSE tc_extract_iter
           fetched == IF starting THEN 0 ELSE tc_fetched
           held == IF starting THEN FALSE ELSE tc_held
           rows == RawRows
           executed == ExecutedAfterNext(starting, tc_executed)
           Stop == /\ tc_extract_iter' = "finished"
                   /\ tc_ret' = Ret("None", "", PyNone)
                   /\ tc_fetched' = fetched
                   /\ tc_held' = FALSE
                   /\ tc_nones' = Min(tc_nones + 1, MaxNones)
                   /\ UNCHANGED <<tc_out, tc_raised>>
           Raise(exc, n) ==
                   /\ tc_extract_iter' = GenAfterRaise
                   /\ tc_ret' = Ret("raise", exc, PyNone)
                   /\ tc_fetched' = n
                   /\ tc_held' = FALSE
                   /\ tc_raised' = TRUE
                   /\ UNCHANGED <<tc_out, tc_nones>>
           Group(first) ==
               LET g == RunGroup(rows, first, GetTableKey(rows[first]), <<>>)
                   last_row == LastRow(rows, first, g.last)
               IN  IF g.status = "raise" THEN Raise("KeyError", g.fetched)
                   ELSE IF YieldRaises(last_row, tc_tags_separator)
                   THEN Raise(IF "tags" \in DOMAIN last_row /\ "database" \in DOMAIN last_row
                              THEN "ValueError" ELSE "KeyError", g.fetched)
                   ELSE LET rec == TableMetadata(last_row, g.columns, tc_tags_separator)
                        IN  /\ tc_extract_iter' = "suspended"
                            /\ tc_ret' = Ret("record", "", rec)
                            /\ tc_out' = Append(tc_out, rec)
                            /\ tc_fetched' = g.fetched
                            /\ tc_held' = g.held
                            /\ UNCHANGED <<tc_raised, tc_nones>>
       IN  /\ tc_executed' = executed
           /\ IF status = "finished" THEN Stop
              ELSE IF held THEN Group(fetched)
              ELSE IF fetched >= Len(rows) THEN Stop
              ELSE IF KeyRaises(rows[fetched + 1]) THEN Raise("KeyError", fetched + 1)
              ELSE Group(fetched + 1)
    /\ UNCHANGED <<tc_conf, tc_sql_stmt, tc_where_stmt, tc_cluster, tc_tags_separator,
                   tc_cursor, env_vars>>

\* --------------------------------------------------- DremioMetadataExtractor

ME == "DremioMetadataExtractor"

ME_MODEL_CLASS == "model_class"
ME_SQL_STATEMENT == "sql_statement"

ME_DEFAULT_CONFIG == (ME_MODEL_CLASS :> PyNone) @@ (ME_SQL_STATEMENT :> PyNone)

\* Rows a caller-supplied statement can yield: two columns, a possibly NULL.
MERows == { ("a" :> "1") @@ ("b" :> "x"),
            ("a" :> "2") @@ ("b" :> "y"),
            ("a" :> PyNone) @@ ("b" :> "x") }

\* The classes importable in the job: pkg.Owner(a, b) rejects a None `a`;
\* pkg.Other(x, y) has other fields.  "Owner" has no module part and pkg.Missing
\* does not exist.
MEModelClassNames == {"pkg.Owner", "pkg.Other", "Owner", "pkg.Missing"}

\* __get_model_class raises: rsplit yields one part, or getattr finds no class.
ModelClassRaises(model_class_name) ==
    model_class_name # PyNone /\ model_class_name \in {"Owner", "pkg.Missing"}

\* __get_model_class
GetModelClass(model_class_name) ==
    IF model_class_name # PyNone THEN model_class_name ELSE PyNone

\* model_class(**result) raises TypeError.
ConstructRaises(cls, result) ==
    \/ cls = "pkg.Other"
    \/ cls = "pkg.Owner" /\ (DOMAIN result # {"a", "b"} \/ result["a"] = PyNone)

\* What __get_extract_iter yields for one row.
MERecord(cls, result) ==
    IF cls # PyNone THEN [model_class |-> cls, fields |-> result]
    ELSE [model_class |-> PyNone, fields |-> result]

MEConfs ==
    { s @@ m : s \in {<<>>, (ME_SQL_STATEMENT :> "SELECT a, b FROM t")},
               m \in {<<>>} \cup {(ME_MODEL_CLASS :> c) : c \in MEModelClassNames} }

MEInitState ==
    /\ me_conf = PyNone
    /\ me_nones = 0
    /\ me_sql_stmt = PyNone
    /\ me_model_class = PyNone
    /\ me_cursor = "noattr"
    /\ me_extract_iter = "noattr"
    /\ me_fetched = 0
    /\ me_executed = 0
    /\ me_out = <<>>
    /\ me_ret = Ret("nocall", "", PyNone)
    /\ me_raised = FALSE

\* init(conf); connect_ok: whether pyodbc.connect succeeds.
MEInit(given, connect_ok) ==
    /\ harness = ME
    /\ me_ret.kind = "nocall"
    /\ me_conf' = given
    /\ LET conf == WithFallback(given, ME_DEFAULT_CONFIG)
       IN  /\ me_sql_stmt' = conf[ME_SQL_STATEMENT]
           /\ IF ModelClassRaises(conf[ME_MODEL_CLASS])
              THEN /\ me_ret' = Ret("raise", "ModelClassLoadError", PyNone)
                   /\ UNCHANGED <<me_model_class, me_cursor, me_extract_iter>>
              ELSE /\ me_model_class' = GetModelClass(conf[ME_MODEL_CLASS])
                   /\ IF connect_ok
                      THEN /\ me_cursor' = "open"
                           /\ me_extract_iter' = PyNone
                           /\ me_ret' = Ret("ok", "", PyNone)
                      ELSE /\ me_ret' = Ret("raise", "pyodbc.Error", PyNone)
                           /\ UNCHANGED <<me_cursor, me_extract_iter>>
    /\ UNCHANGED <<me_fetched, me_executed, me_out, me_raised, me_nones, env_vars>>

\* cursor.execute(None) raises TypeError: the statement must be a string.
ExecuteRaises(sql_stmt) == sql_stmt = PyNone

\* extract(): creates the generator when _extract_iter is falsy, then next() on it.
MEExtract ==
    /\ harness = ME
    /\ me_extract_iter # "noattr"
    /\ LET starting == IterIsFalsy(me_extract_iter)
           status == IF starting THEN "created" ELSE me_extract_iter
           fetched == IF starting THEN 0 ELSE me_fetched
           Stop == /\ me_extract_iter' = "finished"
                   /\ me_ret' = Ret("None", "", PyNone)
                   /\ me_fetched' = fetched
                   /\ me_nones' = Min(me_nones + 1, MaxNones)
                   /\ UNCHANGED <<me_out, me_raised, me_executed>>
           Raise(exc, n, executed) ==
                   /\ me_extract_iter' = GenAfterRaise
                   /\ me_ret' = Ret("raise", exc, PyNone)
                   /\ me_fetched' = n
                   /\ me_raised' = TRUE
                   /\ me_executed' = executed
                   /\ UNCHANGED <<me_out, me_nones>>
           Row(executed) ==
               IF fetched >= Len(db)
               THEN /\ me_extract_iter' = "finished"
                    /\ me_ret' = Ret("None", "", PyNone)
                    /\ me_fetched' = fetched
                    /\ me_executed' = executed
                    /\ me_nones' = Min(me_nones + 1, MaxNones)
                    /\ UNCHANGED <<me_out, me_raised>>
               ELSE LET result == db[fetched + 1]
                    IN  IF ConstructRaises(me_model_class, result)
                        THEN Raise("TypeError", fetched + 1, executed)
                        ELSE LET rec == MERecord(me_model_class, result)
                             IN  /\ me_extract_iter' = "suspended"
                                 /\ me_ret' = Ret("record", "", rec)
                                 /\ me_out' = Append(me_out, rec)
                                 /\ me_fetched' = fetched + 1
                                 /\ me_executed' = executed
                                 /\ UNCHANGED <<me_raised, me_nones>>
       IN  IF status = "finished" THEN Stop
           ELSE IF status = "created"
           THEN IF ExecuteRaises(me_sql_stmt)
                THEN Raise("TypeError", 0, me_executed)
                ELSE Row(Min(me_executed + 1, MaxExec))
           ELSE Row(me_executed)
    /\ UNCHANGED <<me_conf, me_sql_stmt, me_model_class, me_cursor, env_vars>>

\* ------------------------------------------------- DremioOdbcSqlQueryBuilder

QB == "DremioOdbcSqlQueryBuilder"

SqlStatement == {"TABLE_OWNER_INIT", "APPLICATION"}

SqlWhereStatement ==
    {"EXCLUDE_PDS_TABLES", "EXCLUDE_SYS_TABLES", "EXCLUDE_PDS_AND_SYS_TABLES", "INCLUDE_ALL"}

\* "{prefix}TABLE_TYPE != 'TABLE'"
TABLE_TYPE_NOT_PDS_EXPR(prefix) == prefix \o "TABLE_TYPE != 'TABLE'"

\* "{prefix}TABLE_TYPE != 'SYSTEM_TABLE'"
TABLE_TYPE_NOT_SYS_EXPR(prefix) == prefix \o "TABLE_TYPE != 'SYSTEM_TABLE'"

\* __WHERE_STMT_MAPPING[stmt_type].format(prefix=prefix)
WHERE_STMT_MAPPING(stmt_type, prefix) ==
    CASE stmt_type = "EXCLUDE_PDS_TABLES" -> "WHERE " \o TABLE_TYPE_NOT_PDS_EXPR(prefix)
      [] stmt_type = "EXCLUDE_SYS_TABLES" -> "WHERE " \o TABLE_TYPE_NOT_SYS_EXPR(prefix)
      [] stmt_type = "EXCLUDE_PDS_AND_SYS_TABLES" ->
            "WHERE " \o TABLE_TYPE_NOT_PDS_EXPR(prefix) \o " and "
                     \o TABLE_TYPE_NOT_SYS_EXPR(prefix)
      [] stmt_type = "INCLUDE_ALL" -> ""

TABLE_OWNER_INIT_KEYS == {"cluster", "owners", "where_stmt"}

\* __TABLE_OWNER_INIT_STMT.format(**kw)
TABLE_OWNER_INIT_STMT(kw) ==
    "\n    SELECT\n      TABLE_CATALOG AS db_name,\n      TABLE_SCHEMA AS schema,\n      '"
    \o kw["cluster"] \o "' as cluster,\n      TABLE_NAME AS table_name,\n      '"
    \o kw["owners"] \o "' AS owners\n    FROM INFORMATION_SCHEMA.\"TABLES\"\n    "
    \o kw["where_stmt"] \o ";\n    "

APPLICATION_CONTEXT_INIT_KEYS ==
    {"task_id", "dag_id", "exec_date", "application_url_template", "cluster", "where_stmt"}

\* __APPLICATION_CONTEXT_INIT_STMT.format(**kw)
APPLICATION_CONTEXT_INIT_STMT(kw) ==
    "\n    SELECT\n      '" \o kw["task_id"] \o "' as task_id,\n      '"
    \o kw["dag_id"] \o "' as dag_id,\n      '"
    \o kw["exec_date"] \o "' as exec_date,\n      '"
    \o kw["application_url_template"] \o "' as application_url_template,\n      TABLE_CATALOG AS db_name,\n      '"
    \o kw["cluster"] \o "' as cluster,\n      TABLE_SCHEMA AS schema,\n      TABLE_NAME AS table_name\n    FROM INFORMATION_SCHEMA.\"TABLES\"\n    "
    \o kw["where_stmt"] \o ";\n    "

\* Mutant: the prefix is used as given, without the dot.
StmtPrefix_NoDot(stmt_prefix) == stmt_prefix

\* stmt_prefix += '.' if stmt_prefix else ''
StmtPrefix(stmt_prefix) == IF stmt_prefix # "" THEN stmt_prefix \o "." ELSE stmt_prefix

\* The where_stmt argument: None, an enum member, or a tuple (member, prefix).
FilterSpec(form, kind, prefix) == [form |-> form, kind |-> kind, prefix |-> prefix]

QBKinds == SqlWhereStatement \cup {"NOT_A_MEMBER"}

QBFilterSpecs ==
    {FilterSpec("None", "", "")}
    \cup {FilterSpec("enum", k, "") : k \in QBKinds}
    \cup {FilterSpec("tuple", k, p) : k \in QBKinds, p \in {"", "t", "abc"}}

QBKwargs ==
    { ("cluster" :> "C") @@ ("owners" :> "O"),
      ("cluster" :> "Production") @@ ("task_id" :> "T") @@ ("dag_id" :> "D")
         @@ ("exec_date" :> "2020-01-01") @@ ("application_url_template" :> "http://a/{dag_id}")
         @@ ("owners" :> "O"),
      ("cluster" :> "C") }

QBInitState ==
    /\ qb_args = PyNone
    /\ qb_where = PyNone
    /\ qb_ret = Ret("nocall", "", PyNone)

\* get_sql_statement(sql_stmt_enum, where_stmt, **kwargs)
GetSqlStatement(sql_stmt_enum, where_stmt, kwargs) ==
    /\ harness = QB
    /\ qb_args' = [sql_stmt_enum |-> sql_stmt_enum, where_stmt |-> where_stmt,
                   kwargs |-> kwargs]
    /\ LET given == where_stmt.form # "None"
           stmt_type == IF given THEN where_stmt.kind ELSE "INCLUDE_ALL"
           stmt_prefix == IF given
                          THEN StmtPrefix(IF where_stmt.form = "tuple"
                                          THEN where_stmt.prefix ELSE "")
                          ELSE ""
       IN  IF stmt_type \notin SqlWhereStatement
           THEN /\ qb_where' = PyNone
                /\ qb_ret' = Ret("raise", "KeyError", PyNone)
           ELSE LET where == WHERE_STMT_MAPPING(stmt_type, stmt_prefix)
                    kw == ("where_stmt" :> where) @@ kwargs
                    need == IF sql_stmt_enum = "TABLE_OWNER_INIT"
                            THEN TABLE_OWNER_INIT_KEYS ELSE APPLICATION_CONTEXT_INIT_KEYS
                IN  /\ qb_where' = where
                    /\ IF sql_stmt_enum \notin SqlStatement \/ ~(need \subseteq DOMAIN kw)
                       THEN qb_ret' = Ret("raise", "KeyError", PyNone)
                       ELSE qb_ret' = Ret("str", "",
                                IF sql_stmt_enum = "TABLE_OWNER_INIT"
                                THEN TABLE_OWNER_INIT_STMT(kw)
                                ELSE APPLICATION_CONTEXT_INIT_STMT(kw))
    /\ UNCHANGED env_vars

\* ------------------------------------------------------------ specification

Init ==
    /\ harness \in {TC, ME, QB}
    /\ db \in CASE harness = TC -> SeqsUpTo(SrcRows, MaxRows)
                [] harness = ME -> SeqsUpTo(MERows, MaxRows)
                [] harness = QB -> {<<>>}
    /\ odbc_bool \in IF harness = TC THEN {"bool", "str"} ELSE {"bool"}
    /\ odbc_labels \in IF harness = TC THEN {"", "name", "col_name"} ELSE {""}
    /\ TCInitState
    /\ MEInitState
    /\ QBInitState

Next ==
    \/ \E given \in TCConfs, connect_ok \in BOOLEAN :
          TCInit(given, connect_ok) /\ UNCHANGED <<me_vars, qb_vars>>
    \/ TCExtract /\ UNCHANGED <<me_vars, qb_vars>>
    \/ \E given \in MEConfs, connect_ok \in BOOLEAN :
          MEInit(given, connect_ok) /\ UNCHANGED <<tc_vars, qb_vars>>
    \/ MEExtract /\ UNCHANGED <<tc_vars, qb_vars>>
    \/ \E sql_stmt_enum \in SqlStatement \cup {"NOT_A_MEMBER"},
          where_stmt \in QBFilterSpecs, kwargs \in QBKwargs :
          GetSqlStatement(sql_stmt_enum, where_stmt, kwargs) /\ UNCHANGED <<tc_vars, me_vars>>

vars == <<env_vars, tc_vars, me_vars, qb_vars>>

Spec == Init /\ [][Next]_vars

\* ------------------------------------------------------------- properties
\* Reference definitions, stated on the rows the query yields.

\* The k-th smallest element of a finite set of naturals.
NthOf(S, k) == CHOOSE i \in S : Cardinality({j \in S : j < i}) = k - 1

SrcKey(i) == <<db[i].schema, db[i].name>>

\* First rows of the maximal runs of consecutive rows with equal (schema, name).
RunStarts == {i \in 1..Len(db) : i = 1 \/ SrcKey(i) # SrcKey(i - 1)}

RunFirst(k) == NthOf(RunStarts, k)

RunLast(k) == IF k = Cardinality(RunStarts) THEN Len(db) ELSE NthOf(RunStarts, k + 1) - 1

SrcColumn(i) ==
    [name |-> db[i].col_name, description |-> PyNone, col_type |-> db[i].col_type,
     sort_order |-> db[i].col_sort_order]

RunColumns(k) == [j \in 1..(RunLast(k) - RunFirst(k) + 1) |-> SrcColumn(RunFirst(k) + j - 1)]

RECURSIVE Concat(_)
\* The string of a sequence of characters.
Concat(cs) == IF cs = <<>> THEN "" ELSE Head(cs) \o Concat(Tail(cs))

\* The tokens of t between the occurrences of the character sep.
SepTokens(t, sep) ==
    LET cuts == {0} \cup {i \in 1..Len(t) : t[i] = sep} \cup {Len(t) + 1}
    IN  [k \in 1..(Cardinality(cuts) - 1) |->
            Concat(SubSeq(t, NthOf(cuts, k) + 1, NthOf(cuts, k + 1) - 1))]

\* The maximal whitespace-free stretches of t.
WsTokens(t) ==
    LET ink(i) == i >= 1 /\ i <= Len(t) /\ t[i] \notin Whitespace
        starts == {i \in 1..Len(t) : ink(i) /\ ~ink(i - 1)}
        ends == {i \in 1..Len(t) : ink(i) /\ ~ink(i + 1)}
    IN  [k \in 1..Cardinality(starts) |->
            Concat(SubSeq(t, NthOf(starts, k), NthOf(ends, k)))]

\* C1: the records returned so far are the first maximal runs of consecutive rows
\* with equal (schema, name), in run order, each with its rows' columns in arrival
\* order; once the rows are consumed without an error there is exactly one record
\* per run.
C1_OneRecordPerRun ==
    harness = TC =>
        /\ Len(tc_out) <= Cardinality(RunStarts)
        /\ \A k \in 1..Len(tc_out) :
              /\ tc_out[k].columns = RunColumns(k)
              /\ <<tc_out[k].schema, tc_out[k].name>> = SrcKey(RunFirst(k))
        /\ (tc_extract_iter = "finished" /\ ~tc_raised) =>
              Len(tc_out) = Cardinality(RunStarts)

\* Rows t1, t2, t1 have been consumed and gave three records.
C1_Witness ==
    /\ harness = TC /\ tc_extract_iter = "finished" /\ ~tc_raised
    /\ Len(db) = 3 /\ Len(tc_out) = 3
    /\ SrcKey(1) = SrcKey(3) /\ SrcKey(1) # SrcKey(2)
    /\ tc_out[1].name = tc_out[3].name

\* C2: once extract() has returned None, every later extract() returns None, executes
\* nothing and emits nothing, for both extractors.
C2_NoneIsTerminal ==
    [][ /\ (harness = TC /\ tc_ret.kind = "None") =>
              (tc_ret'.kind = "None" /\ tc_executed' = tc_executed /\ tc_out' = tc_out)
        /\ (harness = ME /\ me_ret.kind = "None") =>
              (me_ret'.kind = "None" /\ me_executed' = me_executed /\ me_out' = me_out)
      ]_vars

\* extract() has returned None twice after all records of a non-empty result.
C2_Witness ==
    /\ harness = TC /\ tc_nones >= 2 /\ ~tc_raised
    /\ tc_executed = 1 /\ Len(tc_out) >= 1

TCState ==
    CASE tc_extract_iter = "noattr" -> "uninitialized"
      [] tc_extract_iter = PyNone -> "connected"
      [] tc_extract_iter = "suspended" -> "streaming"
      [] OTHER -> "exhausted"

\* C3: the extractor moves uninitialized -> connected -> streaming -> exhausted and
\* never back; init() opens the connection and executes nothing; the first
\* extract() executes the statement and no later call does.
C3_ExecutedOnceByFirstExtract ==
    [][ harness = TC =>
          /\ TCState = "uninitialized" =>
                /\ TCState' \in {"uninitialized", "connected"}
                /\ tc_executed' = 0
                /\ TCState' = "connected" => tc_cursor' = "open"
          /\ TCState = "connected" =>
                /\ TCState' \in {"streaming", "exhausted"}
                /\ tc_executed = 0 /\ tc_executed' = 1
          /\ TCState = "streaming" =>
                /\ TCState' \in {"streaming", "exhausted"}
                /\ tc_executed = 1 /\ tc_executed' = 1
          /\ TCState = "exhausted" =>
                /\ TCState' = "exhausted"
                /\ tc_executed = 1 /\ tc_executed' = 1
      ]_vars

\* Four extract() calls have gone through streaming to exhausted on one execution.
C3_Witness ==
    /\ harness = TC /\ TCState = "exhausted" /\ tc_executed = 1
    /\ Len(tc_out) >= 2 /\ tc_nones >= 2

\* C4 (as claimed): a returned record is a view exactly when the TABLE_TYPE of its
\* (last) row is 'VIEW', however the driver delivers the boolean.
C4_IsViewIffView ==
    harness = TC =>
        \A k \in 1..Len(tc_out) : tc_out[k].is_view <=> db[RunLast(k)].table_type = "VIEW"

\* C5 (as claimed): tags is null for an empty tag string, the split on the configured
\* separator otherwise, and the whole string as a single tag with no separator.
C5_WholeStringWithoutSeparator ==
    harness = TC =>
        \A k \in 1..Len(tc_out) :
            LET t == db[RunLast(k)].tags
            IN  tc_out[k].tags = IF t = <<>> THEN PyNone
                                 ELSE IF tc_tags_separator = PyNone THEN <<Concat(t)>>
                                 ELSE SepTokens(t, tc_tags_separator)

\* C5 (amended): tags is null for an empty tag string; with a one-character separator
\* it is the tokens between the separators; with no separator (None) it is the
\* whitespace-free stretches of the string; with an empty separator no record with a
\* non-empty tag string is returned (extract() raises).
C5_TagsSplit ==
    harness = TC =>
        \A k \in 1..Len(tc_out) :
            LET t == db[RunLast(k)].tags
            IN  /\ tc_tags_separator = "" => t = <<>>
                /\ tc_out[k].tags = IF t = <<>> THEN PyNone
                                    ELSE IF tc_tags_separator = PyNone THEN WsTokens(t)
                                    ELSE SepTokens(t, tc_tags_separator)

\* With no separator configured, "x y" has been returned as the two tags x and y.
C5_Witness ==
    /\ harness = TC /\ tc_tags_separator = PyNone /\ Len(tc_out) >= 1
    /\ db[RunLast(1)].tags = <<"x", " ", "y">>
    /\ tc_out[1].tags = <<"x", "y">>

\* The conjunction of the conditions cs as a WHERE clause; empty for no condition.
WhereOf(cs) ==
    IF cs = <<>> THEN ""
    ELSE IF Len(cs) = 1 THEN "WHERE " \o cs[1]
    ELSE "WHERE " \o cs[1] \o " AND " \o cs[2]

\* C6: after init() the WHERE clause is the conjunction of one negation per flag
\* that is set (SYSTEM_TABLE for exclude_system_tables, TABLE for
\* exclude_pds_tables, on nested_0.TABLE_TYPE), empty when none is set, with the
\* defaults (true, false) for a flag that is not configured; the statement ends
\* with it and the terminating semicolon.
C6_WhereClause ==
    (harness = TC /\ tc_ret.kind # "nocall") =>
        LET flag(key, default) == IF key \in DOMAIN tc_conf THEN tc_conf[key] ELSE default
            sys == flag(DREMIO_EXCLUDE_SYS_TABLES_KEY, TRUE)
            pds == flag(DREMIO_EXCLUDE_PDS_TABLES_KEY, FALSE)
            cs == (IF sys THEN <<"nested_0.TABLE_TYPE != 'SYSTEM_TABLE'">> ELSE <<>>)
                  \o (IF pds THEN <<"nested_0.TABLE_TYPE != 'TABLE'">> ELSE <<>>)
        IN  /\ tc_where_stmt = WhereOf(cs) \o ";"
            /\ tc_sql_stmt = SQL_HEAD \o tc_cluster \o SQL_MID
                                \o "DREMIO_COLLABORATION_METADATA" \o SQL_TAIL
                                \o WhereOf(cs) \o ";" \o "\n    "

\* init() was given both flags true and built the conjunction.
C6_Witness ==
    /\ harness = TC /\ tc_ret.kind # "nocall"
    /\ DOMAIN tc_conf = {DREMIO_EXCLUDE_SYS_TABLES_KEY, DREMIO_EXCLUDE_PDS_TABLES_KEY}
    /\ tc_conf[DREMIO_EXCLUDE_SYS_TABLES_KEY] /\ tc_conf[DREMIO_EXCLUDE_PDS_TABLES_KEY]
    /\ tc_where_stmt =
          "WHERE nested_0.TABLE_TYPE != 'SYSTEM_TABLE' AND nested_0.TABLE_TYPE != 'TABLE';"

\* C7: a returned statement carries no WHERE clause for an absent filter or for
\* INCLUDE_ALL, and otherwise the kind's conditions on TABLE_TYPE, written
\* prefix.TABLE_TYPE for a non-empty prefix of a pair and TABLE_TYPE for a bare
\* kind or an empty prefix, in both conditions of EXCLUDE_PDS_AND_SYS_TABLES.
C7_WherePart ==
    (harness = QB /\ qb_ret.kind = "str") =>
        LET f == qb_args.where_stmt
            p == IF f.form = "tuple" THEN f.prefix ELSE ""
            col == IF p = "" THEN "TABLE_TYPE" ELSE p \o "." \o "TABLE_TYPE"
            kind == IF f.form = "None" THEN "INCLUDE_ALL" ELSE f.kind
            lits == CASE kind = "EXCLUDE_PDS_TABLES" -> <<"'TABLE'">>
                      [] kind = "EXCLUDE_SYS_TABLES" -> <<"'SYSTEM_TABLE'">>
                      [] kind = "EXCLUDE_PDS_AND_SYS_TABLES" -> <<"'TABLE'", "'SYSTEM_TABLE'">>
                      [] kind = "INCLUDE_ALL" -> <<>>
            clause == IF lits = <<>> THEN ""
                      ELSE IF Len(lits) = 1 THEN "WHERE " \o col \o " != " \o lits[1]
                      ELSE "WHERE " \o col \o " != " \o lits[1] \o " and "
                                    \o col \o " != " \o lits[2]
            kw == ("where_stmt" :> clause) @@ qb_args.kwargs
        IN  /\ qb_where = clause
            /\ qb_ret.rec = IF qb_args.sql_stmt_enum = "TABLE_OWNER_INIT"
                            THEN TABLE_OWNER_INIT_STMT(kw)
                            ELSE APPLICATION_CONTEXT_INIT_STMT(kw)

\* get_sql_statement was given (EXCLUDE_PDS_TABLES, "t") and returned a statement.
C7_Witness ==
    /\ harness = QB /\ qb_ret.kind = "str"
    /\ qb_args.where_stmt = FilterSpec("tuple", "EXCLUDE_PDS_TABLES", "t")
    /\ qb_where = "WHERE t.TABLE_TYPE != 'TABLE'"

\* C8 (as claimed): with no sql_statement configured, init() raises and the
\* extractor never becomes usable.
C8_MissingStatementFailsInit ==
    (harness = ME /\ me_ret.kind # "nocall" /\ ME_SQL_STATEMENT \notin DOMAIN me_conf) =>
        (me_ret.kind = "raise" /\ me_extract_iter = "noattr")

\* C9: every returned record carries the scalar fields of the last row of its run:
\* database, cluster, schema, name, description, and is_view and tags computed from
\* that row's is_view and tags.
C9_ScalarsFromLastRow ==
    harness = TC =>
        \A k \in 1..Len(tc_out) :
            LET last == db[RunLast(k)]
                rec == tc_out[k]
            IN  /\ rec.database = last.database
                /\ rec.cluster = tc_cluster
                /\ rec.schema = last.schema
                /\ rec.name = last.name
                /\ rec.description = last.description
                /\ rec.is_view = PyEq(DriverBool(last.table_type = "VIEW"), PyStr("true"))
                /\ (rec.tags = PyNone) <=> (last.tags = <<>>)
                /\ rec.tags # PyNone => rec.tags = PySplit(last.tags, tc_tags_separator)

\* A run of two rows with different database, description, TABLE_TYPE and tags was
\* returned as one record.
C9_Witness ==
    /\ harness = TC /\ Len(tc_out) >= 1
    /\ RunLast(1) = 2
    /\ db[1].database # db[2].database /\ db[1].description # db[2].description
    /\ db[1].tags # db[2].tags /\ db[1].table_type # db[2].table_type
    /\ tc_out[1].database = db[2].database

\* C10: when an extract() call has raised, the generator is finished: the next
\* extract() returns None, and nothing is executed or returned any more, for both
\* extractors.
C10_RaiseExhausts ==
    [][ /\ (harness = TC /\ tc_raised) =>
              /\ tc_ret.kind \in {"raise", "None"}
              /\ tc_extract_iter = "finished"
              /\ tc_ret'.kind = "None" /\ tc_out' = tc_out /\ tc_executed' = tc_executed
        /\ (harness = ME /\ me_raised) =>
              /\ me_ret.kind \in {"raise", "None"}
              /\ me_extract_iter = "finished"
              /\ me_ret'.kind = "None" /\ me_out' = me_out /\ me_executed' = me_executed
      ]_vars

\* A model class rejected the second row; extract() then returned None with the
\* third row unread.
C10_Witness ==
    /\ harness = ME /\ me_raised /\ me_ret.kind = "None"
    /\ Len(me_out) = 1 /\ me_fetched = 2 /\ Len(db) = 3

====
